---- MODULE Spec2Model ----
(***************************************************************************)
(* Traffic counter (src/traffic_counter/core.py): the record parser, the   *)
(* batch helpers (parse_records, total_cars, totals_by_day,                *)
(* top_half_hours, contiguous_windows, quietest_period) and the one-pass   *)
(* analyse_stream, whose loop is modelled one input line per step.         *)
(*                                                                         *)
(* A timestamp is a number of minutes since midnight of day 0.  A raw line *)
(* is the sequence of its whitespace-separated tokens (what strip() and    *)
(* split() see); a token is a date-time, an integer or neither.            *)
(***************************************************************************)
EXTENDS Integers, Sequences, FiniteSets

\* ------------------------------------------------------------------ bounds
MaxLines == 3
MaxCars == 1
MaxSlot == 2

\* ------------------------------------------------------- program constants
HALF_HOUR == 30

\* window_size: int = 3
DefaultWindowSize == 3

\* top_limit: int = 3
DefaultTopLimit == 3

MinutesPerDay == 24 * 60

\* First sampled slot: 23:00 of day 0, so that the slots cross midnight.
FirstSlot == 23 * 60

Timestamps == {FirstSlot + k * HALF_HOUR : k \in 0..MaxSlot}

\* None of the source, for a value that is otherwise a record.
None == [tag |-> "none"]

\* None of the source, for best_window.  A window is a tuple of
\* window_size >= 1 records, so the empty tuple never is one.
NoWindow == <<>>

\* best_total while best_window is None (never read by the code then).
NoTotal == 0 - 1

\* --------------------------------------------------------------- raw lines
TsToken(t) == [k |-> "ts", v |-> t]

IntToken(n) == [k |-> "int", v |-> n]

BadToken == [k |-> "bad", v |-> 0]

BlankLine == <<>>

ValidLines == {<<TsToken(t), IntToken(c)>> : t \in Timestamps, c \in 0..MaxCars}

SingleTokenLine == <<TsToken(FirstSlot)>>

BadTimestampLine == <<BadToken, IntToken(1)>>

BadCountLine == <<TsToken(FirstSlot), BadToken>>

ThreeTokenLine == <<TsToken(FirstSlot), IntToken(1), IntToken(1)>>

NegativeLine == <<TsToken(FirstSlot), IntToken(0 - 1)>>

InvalidLines ==
    {SingleTokenLine, BadTimestampLine, BadCountLine, ThreeTokenLine, NegativeLine}

RawLines == ValidLines \cup {BlankLine} \cup InvalidLines

\* ------------------------------------------------------------------ parser
TrafficRecord(timestamp, cars) == [timestamp |-> timestamp, cars |-> cars]

\* The line number a message carries; the validation error of
\* TrafficRecord.__post_init__ carries none.
NoLine == 0

ParseError(kind, number) == [tag |-> "error", kind |-> kind, line |-> number]

\* Mutant of parse_line: a negative count is not rejected.
parse_line_NoValidation(raw, number) ==
    IF Len(raw) = 0 THEN None
    ELSE IF Len(raw) = 1 THEN ParseError("format", number)
    ELSE IF raw[1].k # "ts" THEN ParseError("timestamp", number)
    ELSE IF Len(raw) # 2 \/ raw[2].k # "int" THEN ParseError("count", number)
    ELSE [tag |-> "record", record |-> TrafficRecord(raw[1].v, raw[2].v)]

\* Mutant of parse_line: a line of more than two tokens is a format error.
parse_line_ExactlyTwoFields(raw, number) ==
    IF Len(raw) = 0 THEN None
    ELSE IF Len(raw) # 2 THEN ParseError("format", number)
    ELSE IF raw[1].k # "ts" THEN ParseError("timestamp", number)
    ELSE IF raw[2].k # "int" THEN ParseError("count", number)
    ELSE IF raw[2].v < 0 THEN ParseError("validation", NoLine)
    ELSE [tag |-> "record", record |-> TrafficRecord(raw[1].v, raw[2].v)]

\* Mutant of parse_line: a blank line is a format error like a single token.
parse_line_BlankIsError(raw, number) ==
    IF Len(raw) <= 1 THEN ParseError("format", number)
    ELSE IF raw[1].k # "ts" THEN ParseError("timestamp", number)
    ELSE IF Len(raw) # 2 \/ raw[2].k # "int" THEN ParseError("count", number)
    ELSE IF raw[2].v < 0 THEN ParseError("validation", NoLine)
    ELSE [tag |-> "record", record |-> TrafficRecord(raw[1].v, raw[2].v)]

\* _parse_line: strip, split(maxsplit=1), fromisoformat, int, TrafficRecord.
\* cars_str is everything after the first token: int() accepts it only when
\* it is a single integer token.
parse_line(raw, number) ==
    IF Len(raw) = 0 THEN None
    ELSE IF Len(raw) = 1 THEN ParseError("format", number)
    ELSE IF raw[1].k # "ts" THEN ParseError("timestamp", number)
    ELSE IF Len(raw) # 2 \/ raw[2].k # "int" THEN ParseError("count", number)
    ELSE IF raw[2].v < 0 THEN ParseError("validation", NoLine)
    ELSE [tag |-> "record", record |-> TrafficRecord(raw[1].v, raw[2].v)]

\* ------------------------------------------------------------ stable sorts
\* Lexicographic order of two-component keys.
KeyLess(a, b) == a[1] < b[1] \/ (a[1] = b[1] /\ a[2] < b[2])

\* Mutant of InsertStable: x goes before the elements of equal key.
RECURSIVE InsertStable_BeforeEqual(_, _, _)
InsertStable_BeforeEqual(sorted, x, i) ==
    IF i > Len(sorted) THEN Append(sorted, x)
    ELSE IF ~KeyLess(sorted[i].key, x.key)
         THEN SubSeq(sorted, 1, i - 1) \o <<x>> \o SubSeq(sorted, i, Len(sorted))
         ELSE InsertStable_BeforeEqual(sorted, x, i + 1)

\* Insert x after every element whose key is not greater (stability).
RECURSIVE InsertStable(_, _, _)
InsertStable(sorted, x, i) ==
    IF i > Len(sorted) THEN Append(sorted, x)
    ELSE IF KeyLess(x.key, sorted[i].key)
         THEN SubSeq(sorted, 1, i - 1) \o <<x>> \o SubSeq(sorted, i, Len(sorted))
         ELSE InsertStable(sorted, x, i + 1)

RECURSIVE StableSort(_, _, _)
StableSort(items, i, acc) ==
    IF i > Len(items) THEN acc
    ELSE StableSort(items, i + 1, InsertStable(acc, items[i], 1))

Values(items) == [i \in 1..Len(items) |-> items[i].val]

\* key=lambda record: record.timestamp
TimestampKey(record) == <<record.timestamp, 0>>

\* Mutant of TopKey: the count is not negated (fewest cars first).
TopKey_Ascending(record) == <<record.cars, record.timestamp>>

\* key=lambda record: (-record.cars, record.timestamp)
TopKey(record) == <<0 - record.cars, record.timestamp>>

SortByTimestamp(records) ==
    Values(StableSort([i \in 1..Len(records) |->
        [key |-> TimestampKey(records[i]), val |-> records[i]]], 1, <<>>))

SortByTopKey(records) ==
    Values(StableSort([i \in 1..Len(records) |->
        [key |-> TopKey(records[i]), val |-> records[i]]], 1, <<>>))

\* ----------------------------------------------------------- batch helpers
RECURSIVE ParseLoop(_, _, _)
ParseLoop(lines, number, records) ==
    IF number > Len(lines)
    THEN [tag |-> "ok", records |-> SortByTimestamp(records)]
    ELSE LET parsed == parse_line(lines[number], number) IN
         IF parsed.tag = "error" THEN parsed
         ELSE IF parsed.tag = "none" THEN ParseLoop(lines, number + 1, records)
         ELSE ParseLoop(lines, number + 1, Append(records, parsed.record))

parse_records(lines) == ParseLoop(lines, 1, <<>>)

RECURSIVE SumCars(_, _)
SumCars(records, i) ==
    IF i > Len(records) THEN 0 ELSE records[i].cars + SumCars(records, i + 1)

\* Mutant of total_cars: the first record is not counted.
total_cars_SkipFirst(records) == SumCars(records, 2)

total_cars(records) == SumCars(records, 1)

\* record.timestamp.date().isoformat(): the calendar day.  ISO date strings
\* of four-digit years order as the days do, so the day number stands for
\* the string.
DayKey(timestamp) == timestamp \div MinutesPerDay

\* Mutant of AddToDay: the day's entry is overwritten, not added to.
AddToDay_Overwrite(daily, day, cars) ==
    [d \in DOMAIN daily \cup {day} |-> IF d = day THEN cars ELSE daily[d]]

\* daily[day] = daily.get(day, 0) + cars
AddToDay(daily, day, cars) ==
    [d \in DOMAIN daily \cup {day} |->
        (IF d \in DOMAIN daily THEN daily[d] ELSE 0) + (IF d = day THEN cars ELSE 0)]

EmptyDaily == [d \in {} |-> 0]

RECURSIVE GroupByDay(_, _, _)
GroupByDay(records, i, daily) ==
    IF i > Len(records) THEN daily
    ELSE GroupByDay(records, i + 1,
                    AddToDay(daily, DayKey(records[i].timestamp), records[i].cars))

\* sorted(daily.items())
RECURSIVE SortedItems(_)
SortedItems(daily) ==
    IF DOMAIN daily = {} THEN <<>>
    ELSE LET first == CHOOSE d \in DOMAIN daily : \A e \in DOMAIN daily : d <= e
             rest == [d \in DOMAIN daily \ {first} |-> daily[d]]
         IN <<<<first, daily[first]>>>> \o SortedItems(rest)

totals_by_day(records) == SortedItems(GroupByDay(records, 1, EmptyDaily))

\* seq[:limit] of Python: a negative limit counts from the end.
SliceTo(seq, limit) ==
    IF limit >= 0
    THEN SubSeq(seq, 1, IF limit < Len(seq) THEN limit ELSE Len(seq))
    ELSE SubSeq(seq, 1, IF Len(seq) + limit > 0 THEN Len(seq) + limit ELSE 0)

top_half_hours(records, limit) == SliceTo(SortByTopKey(records), limit)

\* all(window[index + 1].timestamp - window[index].timestamp == HALF_HOUR ...)
NoGaps(window) ==
    \A index \in 1..(Len(window) - 1) :
        window[index + 1].timestamp - window[index].timestamp = HALF_HOUR

\* Mutant of WindowsFrom: range(len(records) - size) misses the last start.
RECURSIVE WindowsFrom_SkipLast(_, _, _)
WindowsFrom_SkipLast(records, size, start) ==
    IF start > Len(records) - size THEN <<>>
    ELSE LET window == SubSeq(records, start, start + size - 1) IN
         (IF NoGaps(window) THEN <<window>> ELSE <<>>)
             \o WindowsFrom_SkipLast(records, size, start + 1)

RECURSIVE WindowsFrom(_, _, _)
WindowsFrom(records, size, start) ==
    IF start > Len(records) - size + 1 THEN <<>>
    ELSE LET window == SubSeq(records, start, start + size - 1) IN
         (IF NoGaps(window) THEN <<window>> ELSE <<>>)
             \o WindowsFrom(records, size, start + 1)

SizeError == [tag |-> "error", kind |-> "size"]

\* Mutant of contiguous_windows: the size is not checked.
contiguous_windows_NoCheck(records, size) ==
    [tag |-> "ok", windows |-> WindowsFrom(records, size, 1)]

contiguous_windows(records, size) ==
    IF size <= 0 THEN SizeError
    ELSE [tag |-> "ok", windows |-> WindowsFrom(records, size, 1)]

\* Mutant of Better: a later window replaces an equally quiet earlier one.
Better_LaterOnTie(window, window_total, best, best_total) ==
    best = NoWindow \/ window_total <= best_total

\* best is None or window_total < best_total or (window_total == best_total
\* and window[0].timestamp < best[0].timestamp)
Better(window, window_total, best, best_total) ==
    \/ best = NoWindow
    \/ window_total < best_total
    \/ (window_total = best_total /\ window[1].timestamp < best[1].timestamp)

RECURSIVE QuietestLoop(_, _, _, _)
QuietestLoop(windows, i, best, best_total) ==
    IF i > Len(windows) THEN best
    ELSE LET window == windows[i]
             window_total == total_cars(window)
         IN IF Better(window, window_total, best, best_total)
            THEN QuietestLoop(windows, i + 1, window, window_total)
            ELSE QuietestLoop(windows, i + 1, best, best_total)

NoWindowError == [tag |-> "error", kind |-> "no_window"]

quietest_period(records, size) ==
    LET found == contiguous_windows(records, size) IN
    IF found.tag = "error" THEN found
    ELSE LET best == QuietestLoop(found.windows, 1, NoWindow, NoTotal) IN
         IF best = NoWindow THEN NoWindowError
         ELSE [tag |-> "ok", window |-> best]

\* ---------------------------------------------------------- analyse_stream
VARIABLES
    pc,           \* "start", "loop", "done" or "raised"
    window_size,  \* keyword argument of analyse_stream
    top_limit,    \* keyword argument of analyse_stream
    lines,        \* the raw lines read from the line source so far
    unread,       \* the lines left in the source by a run that raised
    total,
    daily,
    top_records,
    buffer,
    best_window,  \* a tuple of records, or NoWindow
    best_total,
    raised,       \* the exception that ended analyse_stream, or None
    result,       \* the AnalysisResult returned, or None
    seen,         \* history: the records incorporated, in input order
    batch         \* outcome of the batch helpers on the same lines, or None

vars == <<pc, window_size, top_limit, lines, unread, total, daily, top_records, buffer,
          best_window, best_total, raised, result, seen, batch>>

\* The arguments tried: non-positive ones, the sizes up to the default, and
\* of the limits the smallest and the largest that an input of MaxLines
\* lines exceeds.
Sizes == (0 - 1)..DefaultWindowSize

Limits == {0 - 1, 0, 1, MaxLines - 1}

\* What the line source may still hold when analyse_stream raises.
UnreadAfterParseError ==
    {<<>>, <<<<TsToken(FirstSlot), IntToken(1)>>, BadCountLine>>}

UnreadAfterConfigError ==
    UnreadAfterParseError
        \cup {<<<<TsToken(FirstSlot + HALF_HOUR), IntToken(1)>>,
                <<TsToken(FirstSlot), IntToken(0)>>>>}

ConfigError(name) == [tag |-> "error", kind |-> "config", param |-> name]

AnalysisResult(t, per_day, top, quietest) ==
    [total |-> t, per_day |-> per_day, top_half_hours |-> top,
     quietest_window |-> quietest]

Init ==
    /\ pc = "start"
    /\ window_size \in Sizes
    /\ top_limit \in Limits
    /\ lines = <<>>
    /\ unread = <<>>
    /\ total = 0
    /\ daily = EmptyDaily
    /\ top_records = <<>>
    /\ buffer = <<>>
    /\ best_window = NoWindow
    /\ best_total = NoTotal
    /\ raised = None
    /\ result = None
    /\ seen = <<>>
    /\ batch = None

\* The argument checks, before the loop.
CheckArguments ==
    /\ pc = "start"
    /\ IF window_size <= 0
       THEN pc' = "raised" /\ raised' = ConfigError("window_size")
       ELSE IF top_limit <= 0
            THEN pc' = "raised" /\ raised' = ConfigError("top_limit")
            ELSE pc' = "loop" /\ raised' = raised
    /\ IF window_size <= 0 \/ top_limit <= 0
       THEN unread' \in UnreadAfterConfigError
       ELSE unread' = unread
    /\ UNCHANGED <<window_size, top_limit, lines, total, daily, top_records,
                   buffer, best_window, best_total, result, seen, batch>>

\* Mutant of TopInsert: pop(0) drops the busiest record, not the last one.
TopInsert_PopFirst(top, record, limit) ==
    LET sorted == SortByTopKey(Append(top, record)) IN
    IF Len(sorted) > limit THEN Tail(sorted) ELSE sorted

\* Mutant of TopInsert: the list is never shortened.
TopInsert_NoPop(top, record, limit) == SortByTopKey(Append(top, record))

\* top_records.append(record); top_records.sort(...); pop() when too long.
TopInsert(top, record, limit) ==
    LET sorted == SortByTopKey(Append(top, record)) IN
    IF Len(sorted) > limit THEN SubSeq(sorted, 1, Len(sorted) - 1) ELSE sorted

\* Mutant of BufferPush: a record that does not follow by 30 minutes is
\* appended all the same, without restarting the buffer.
BufferPush_NoReset(buf, record, size) ==
    LET appended == Append(buf, record) IN
    IF Len(appended) > size THEN Tail(appended) ELSE appended

\* Mutant of BufferPush: any later record continues the run (delta > 0).
BufferPush_AnyLater(buf, record, size) ==
    IF buf = <<>> THEN <<record>>
    ELSE LET delta == record.timestamp - buf[Len(buf)].timestamp IN
         IF delta > 0
         THEN LET appended == Append(buf, record) IN
              IF Len(appended) > size THEN Tail(appended) ELSE appended
         ELSE <<record>>

\* Mutant of BufferPush: pop() drops the record just appended, not the
\* oldest one.
BufferPush_DropNewest(buf, record, size) ==
    IF buf = <<>> THEN <<record>>
    ELSE LET delta == record.timestamp - buf[Len(buf)].timestamp IN
         IF delta = HALF_HOUR
         THEN LET appended == Append(buf, record) IN
              IF Len(appended) > size THEN buf ELSE appended
         ELSE <<record>>

\* The rolling buffer of the latest unbroken run.
BufferPush(buf, record, size) ==
    IF buf = <<>> THEN <<record>>
    ELSE LET delta == record.timestamp - buf[Len(buf)].timestamp IN
         IF delta = HALF_HOUR
         THEN LET appended == Append(buf, record) IN
              IF Len(appended) > size THEN Tail(appended) ELSE appended
         ELSE <<record>>

\* Mutant of StreamBetter: a later window replaces an equally quiet one.
StreamBetter_LaterOnTie(buf, window_total, best, best_tot) ==
    best = NoWindow \/ window_total <= best_tot

\* Mutant of StreamBetter: only the start timestamps are compared.
StreamBetter_EarliestStart(buf, window_total, best, best_tot) ==
    best = NoWindow \/ buf[1].timestamp < best[1].timestamp

\* The comparison that replaces best_window by the buffer.
StreamBetter(buf, window_total, best, best_tot) ==
    \/ best = NoWindow
    \/ window_total < best_tot
    \/ (window_total = best_tot /\ buf[1].timestamp < best[1].timestamp)

\* One iteration of the loop over enumerate(lines, 1).
StreamStep(raw) ==
    /\ pc = "loop"
    /\ Len(lines) < MaxLines
    /\ lines' = Append(lines, raw)
    /\ LET parsed == parse_line(raw, Len(lines) + 1) IN
       IF parsed.tag = "error"
       THEN /\ pc' = "raised"
            /\ raised' = parsed
            /\ unread' \in UnreadAfterParseError
            /\ UNCHANGED <<total, daily, top_records, buffer, best_window,
                           best_total, seen>>
       ELSE IF parsed.tag = "none"
       THEN UNCHANGED <<pc, raised, unread, total, daily, top_records, buffer,
                        best_window, best_total, seen>>
       ELSE LET record == parsed.record
                newBuffer == BufferPush(buffer, record, window_size)
                window_total == total_cars(newBuffer)
            IN /\ total' = total + record.cars
               /\ daily' = AddToDay(daily, DayKey(record.timestamp), record.cars)
               /\ top_records' = TopInsert(top_records, record, top_limit)
               /\ buffer' = newBuffer
               /\ IF Len(newBuffer) = window_size
                     /\ StreamBetter(newBuffer, window_total, best_window, best_total)
                  THEN best_window' = newBuffer /\ best_total' = window_total
                  ELSE UNCHANGED <<best_window, best_total>>
               /\ seen' = Append(seen, record)
               /\ UNCHANGED <<pc, raised, unread>>
    /\ UNCHANGED <<window_size, top_limit, result, batch>>

\* The line source is exhausted: build the result.
StreamFinish ==
    /\ pc = "loop"
    /\ pc' = "done"
    /\ result' = [tag |-> "ok",
                  value |-> AnalysisResult(total, SortedItems(daily),
                                           SliceTo(top_records, top_limit), best_window)]
    /\ UNCHANGED <<window_size, top_limit, lines, unread, total, daily,
                   top_records, buffer, best_window, best_total, raised, seen,
                   batch>>

\* The batch helpers applied to the lines of the same source, with the same
\* arguments.
BatchOutcome(input, size, limit) ==
    LET parsed == parse_records(input) IN
    IF parsed.tag = "error" THEN parsed
    ELSE [tag |-> "ok",
          records |-> parsed.records,
          total |-> total_cars(parsed.records),
          per_day |-> totals_by_day(parsed.records),
          top_half_hours |-> top_half_hours(parsed.records, limit),
          quietest |-> quietest_period(parsed.records, size)]

RunBatch ==
    /\ pc \in {"done", "raised"}
    /\ batch = None
    /\ batch' = BatchOutcome(lines \o unread, window_size, top_limit)
    /\ UNCHANGED <<pc, window_size, top_limit, lines, unread, total, daily, top_records,
                   buffer, best_window, best_total, raised, result, seen>>

Next ==
    \/ CheckArguments
    \/ \E raw \in RawLines : StreamStep(raw)
    \/ StreamFinish
    \/ RunBatch

Spec == Init /\ [][Next]_vars

\* ================================================================== claims
\* Helpers of the statements below (not part of the program).
RECURSIVE SumOf(_)
SumOf(seq) == IF seq = <<>> THEN 0 ELSE SumOf(SubSeq(seq, 1, Len(seq) - 1)) + seq[Len(seq)].cars

NonDecreasing(seq) ==
    \A i \in 1..(Len(seq) - 1) : seq[i].timestamp <= seq[i + 1].timestamp

\* The size records of seq from position start on.
Group(seq, start, size) == SubSeq(seq, start, start + size - 1)

Starts(seq, size) == 1..(Len(seq) - size + 1)

\* Every consecutive pair is exactly 30 minutes apart.
HalfHourSteps(seq) ==
    \A i \in 1..(Len(seq) - 1) : seq[i + 1].timestamp = seq[i].timestamp + 30

\* The start positions of the runs of size records of seq without a gap.
Candidates(seq, size) == {i \in Starts(seq, size) : HalfHourSteps(Group(seq, i, size))}

Occurrences(seq, x) == Cardinality({i \in 1..Len(seq) : seq[i] = x})

Elements(seq) == {seq[i] : i \in 1..Len(seq)}

Min(a, b) == IF a < b THEN a ELSE b

\* The batch pipeline as an Analysis Result, no candidate being unavailable.
BatchAsResult ==
    AnalysisResult(batch.total, batch.per_day, batch.top_half_hours,
                   IF batch.quietest.tag = "ok" THEN batch.quietest.window ELSE NoWindow)

BothFinished == pc = "done" /\ batch # None

\* C1 (as stated): for valid lines in any order, analyse_stream returns the
\* same total, per_day, top-k and quietest window as the batch pipeline.
C1_StreamEqualsBatch ==
    BothFinished => (batch.tag = "ok" /\ result.value = BatchAsResult)

\* C1 (amended): total, per_day and top-k are the same for every order of the
\* lines, and the quietest window is the same whenever the lines arrive in
\* non-decreasing timestamp order.
C1_StreamEqualsBatchInOrder ==
    BothFinished =>
        /\ batch.tag = "ok"
        /\ result.value.total = batch.total
        /\ result.value.per_day = batch.per_day
        /\ result.value.top_half_hours = batch.top_half_hours
        /\ NonDecreasing(seen) => result.value = BatchAsResult

\* An ordered input with a duplicate timestamp in which both pipelines find a
\* window.
C1_Witness ==
    /\ BothFinished
    /\ NonDecreasing(seen)
    /\ \E i \in 1..(Len(seen) - 1) : seen[i].timestamp = seen[i + 1].timestamp
    /\ result.value.quietest_window # NoWindow
    /\ window_size > 1

\* C2: on a chronologically sorted collection, the window quietest_period
\* returns is size records of the collection in a row, 30 minutes apart each,
\* no candidate window has a smaller sum, and none with the same sum starts
\* earlier.
QuietestIsMinimal(records, size, window) ==
    /\ Len(window) = size
    /\ HalfHourSteps(window)
    /\ \E i \in Candidates(records, size) : Group(records, i, size) = window
    /\ \A i \in Candidates(records, size) :
          LET other == Group(records, i, size) IN
          /\ SumOf(other) >= SumOf(window)
          /\ SumOf(other) = SumOf(window)
                => window[1].timestamp <= other[1].timestamp

C2_QuietestPeriodMinimal ==
    (batch # None /\ batch.tag = "ok" /\ batch.quietest.tag = "ok") =>
        /\ NonDecreasing(batch.records)
        /\ QuietestIsMinimal(batch.records, window_size, batch.quietest.window)

\* Two candidate windows of more than one record tie on the minimal sum.
C2_Witness ==
    /\ batch # None /\ batch.tag = "ok" /\ batch.quietest.tag = "ok"
    /\ window_size > 1
    /\ \E i, j \in Candidates(batch.records, window_size) :
          /\ i < j
          /\ SumOf(Group(batch.records, i, window_size)) = SumOf(batch.quietest.window)
          /\ SumOf(Group(batch.records, j, window_size)) = SumOf(batch.quietest.window)

\* C3: whatever the input order, the window analyse_stream holds or returns
\* is window_size records that were consecutive in the input, each exactly 30
\* minutes after the one before.
C3_StreamWindowHasNoGap ==
    best_window # NoWindow =>
        /\ Len(best_window) = window_size
        /\ HalfHourSteps(best_window)
        /\ \E i \in Starts(seen, window_size) : Group(seen, i, window_size) = best_window
        /\ pc = "done" => result.value.quietest_window = best_window

\* A group of consecutive input records that straddles a gap has a smaller
\* sum than the window returned.
C3_Witness ==
    /\ pc = "done"
    /\ result.value.quietest_window # NoWindow
    /\ \E i \in Starts(seen, window_size) :
          /\ ~HalfHourSteps(Group(seen, i, window_size))
          /\ SumOf(Group(seen, i, window_size)) < SumOf(result.value.quietest_window)

\* C4: for a positive limit, top_half_hours returns min(limit, n) records of
\* the collection, ascending by (-cars, timestamp), and no record left out
\* has a smaller key than a record included; of the records read so far in
\* their input order as of the sorted collection of parse_records.
KeyNotGreater(a, b) ==
    a.cars > b.cars \/ (a.cars = b.cars /\ a.timestamp <= b.timestamp)

TopIsCorrect(records, limit, top) ==
    /\ Len(top) = Min(limit, Len(records))
    /\ \A i \in 1..(Len(top) - 1) : KeyNotGreater(top[i], top[i + 1])
    /\ \A x \in Elements(top) : Occurrences(top, x) <= Occurrences(records, x)
    /\ \A x \in Elements(records) :
          Occurrences(top, x) < Occurrences(records, x)
              => \A y \in Elements(top) : KeyNotGreater(y, x)

C4_TopHalfHoursCorrect ==
    top_limit > 0 =>
        /\ pc = "loop"
              => TopIsCorrect(seen, top_limit, top_half_hours(seen, top_limit))
        /\ (batch # None /\ batch.tag = "ok")
              => TopIsCorrect(batch.records, top_limit, batch.top_half_hours)

\* Records are left out, and a record included ties on cars with one left out.
C4_Witness ==
    /\ batch # None /\ batch.tag = "ok"
    /\ top_limit > 0
    /\ Len(batch.records) > top_limit
    /\ \E x \in Elements(batch.records) :
          /\ Occurrences(batch.top_half_hours, x) = 0
          /\ \E y \in Elements(batch.top_half_hours) :
                y.cars = x.cars /\ y.timestamp < x.timestamp

\* C5: whatever the order of arrival, the streaming top-k ends as the batch
\* top-k of the same records.
C5_StreamTopEqualsBatchTop ==
    BothFinished =>
        /\ batch.tag = "ok"
        /\ result.value.top_half_hours = batch.top_half_hours
        /\ top_records = top_half_hours(seen, top_limit)

\* The records arrive out of order, more of them than limit, and a record
\* that arrived late is in the result.
C5_Witness ==
    /\ BothFinished
    /\ ~NonDecreasing(seen)
    /\ Len(seen) > top_limit
    /\ result.value.top_half_hours[1] = seen[Len(seen)]

\* C6: the total is the sum of cars of the records parsed: the running total
\* after every record of a streaming run, the total of its result, and
\* total_cars of the batch collection.
C6_TotalIsSumOfCars ==
    /\ total = SumOf(seen)
    /\ pc = "done" => result.value.total = SumOf(seen)
    /\ (batch # None /\ batch.tag = "ok")
          => /\ batch.total = SumOf(batch.records)
             /\ pc = "done" => batch.total = SumOf(seen)

\* A streaming run in progress has skipped a blank line and counted cars of
\* several records.
C6_Witness ==
    /\ pc = "loop"
    /\ Len(seen) >= 2
    /\ Len(lines) > Len(seen)
    /\ total >= 2

\* C7: per_day has one entry for each calendar day of the input, in strictly
\* ascending day order, each with the sum of cars of the records of that day.
CalendarDay(timestamp) == (timestamp - (timestamp % (24 * 60))) \div (24 * 60)

OnDay(records, day) ==
    SelectSeq(records, LAMBDA r : CalendarDay(r.timestamp) = day)

PerDayIsCorrect(records, per_day) ==
    /\ {per_day[i][1] : i \in 1..Len(per_day)}
          = {CalendarDay(r.timestamp) : r \in Elements(records)}
    /\ \A i \in 1..(Len(per_day) - 1) : per_day[i][1] < per_day[i + 1][1]
    /\ \A i \in 1..Len(per_day) : per_day[i][2] = SumOf(OnDay(records, per_day[i][1]))

C7_PerDayCorrect ==
    /\ pc = "done" => PerDayIsCorrect(seen, result.value.per_day)
    /\ (batch # None /\ batch.tag = "ok")
          => /\ PerDayIsCorrect(batch.records, batch.per_day)
             /\ pc = "done" => PerDayIsCorrect(seen, batch.per_day)

\* Out-of-order records of two days, the later day first, two of them with
\* cars on the same day.
C7_Witness ==
    /\ BothFinished
    /\ Len(result.value.per_day) = 2
    /\ CalendarDay(seen[1].timestamp) > CalendarDay(seen[Len(seen)].timestamp)
    /\ \E i \in 1..Len(result.value.per_day) : result.value.per_day[i][2] >= 2

\* C8: analyse_stream ends with an exception only for bad arguments or an
\* invalid line; when it returns, the quietest window is unavailable exactly
\* when the input has no run of window_size records in a row 30 minutes
\* apart, and total, per_day and top-k are computed all the same.
IsInvalid(raw) ==
    \/ Len(raw) = 1
    \/ Len(raw) > 2
    \/ Len(raw) = 2 /\ (raw[1].k # "ts" \/ raw[2].k # "int" \/ raw[2].v < 0)

InvalidAt == {i \in 1..Len(lines) : IsInvalid(lines[i])}

C8_UnavailableIsNotAnError ==
    /\ pc = "raised" => (window_size <= 0 \/ top_limit <= 0 \/ InvalidAt # {})
    /\ pc = "done" =>
          /\ result.value.quietest_window = NoWindow
                <=> Candidates(seen, window_size) = {}
          /\ result.value.total = SumOf(seen)
          /\ Len(result.value.top_half_hours) = Min(top_limit, Len(seen))
          /\ PerDayIsCorrect(seen, result.value.per_day)

\* Enough records for a window, with cars, but a gap: no window returned.
C8_Witness ==
    /\ pc = "done"
    /\ Len(seen) >= window_size
    /\ window_size > 1
    /\ result.value.quietest_window = NoWindow
    /\ result.value.total > 0

\* C9: for a positive size, quietest_period raises the no-window error exactly
\* when the collection has no candidate window, and returns a window
\* otherwise; of the records read so far in their input order as of the
\* sorted collection of parse_records.
QuietestErrorIsRight(records, size, outcome) ==
    /\ outcome = NoWindowError <=> Candidates(records, size) = {}
    /\ outcome # NoWindowError => (outcome.tag = "ok" /\ Len(outcome.window) = size)

C9_NoWindowErrorIffNoCandidate ==
    window_size > 0 =>
        /\ pc = "loop"
              => QuietestErrorIsRight(seen, window_size,
                                      quietest_period(seen, window_size))
        /\ (batch # None /\ batch.tag = "ok")
              => QuietestErrorIsRight(batch.records, window_size, batch.quietest)

\* The only candidate window of a collection is its last window_size records.
C9_Witness ==
    /\ batch # None /\ batch.tag = "ok"
    /\ window_size > 1
    /\ Len(batch.records) > window_size
    /\ Candidates(batch.records, window_size) = {Len(batch.records) - window_size + 1}
    /\ batch.quietest.tag = "ok"

\* C10: an invalid line ends the run at the first such line, in
\* analyse_stream and in parse_records: an exception and no result, nothing
\* incorporated from that line on and no line read after it; without an
\* invalid line neither raises a parse error.
ParseKinds == {"format", "timestamp", "count", "validation"}

Source == lines \o unread

InvalidInSource == {i \in 1..Len(Source) : IsInvalid(Source[i])}

FirstInvalid == CHOOSE i \in InvalidInSource : \A j \in InvalidInSource : i <= j

ValidBefore(n) ==
    SelectSeq(SubSeq(Source, 1, n - 1), LAMBDA raw : Len(raw) = 2)

C10_InvalidLineAborts ==
    /\ pc \in {"loop", "done"} =>
          /\ InvalidInSource = {}
          /\ batch # None => batch.tag = "ok"
    /\ (pc = "raised" /\ raised.kind \in ParseKinds) =>
          /\ InvalidInSource # {}
          /\ Len(lines) = FirstInvalid
          /\ result = None
          /\ Len(seen) = Len(ValidBefore(FirstInvalid))
          /\ total = SumOf(seen)
          /\ batch # None => batch = raised
    /\ (pc = "raised" /\ batch # None) =>
          /\ batch.tag = "error" <=> InvalidInSource # {}
          /\ (batch.tag = "error" /\ batch.kind # "validation")
                => batch.line = FirstInvalid

\* Records were incorporated before the invalid line, the source holds a
\* valid and another invalid line after it, and both entries raised.
C10_Witness ==
    /\ pc = "raised"
    /\ raised.kind = "validation"
    /\ Len(seen) >= 2
    /\ total > 0
    /\ unread # <<>>
    /\ batch.tag = "error"

\* C11 (as stated): every parse-time error - format, timestamp, count and
\* validation - names the 1-based number of the offending line, blank lines
\* counted.
C11_ParseErrorNamesLine ==
    (pc = "raised" /\ raised.kind \in ParseKinds) => raised.line = Len(lines)

\* C12 (as stated): an invalid line is rejected with the kind of its defect:
\* format for a single token and for three or more tokens, timestamp for a
\* first field that is no date-time, count for a second field that is no
\* integer, validation for a negative integer.
DefectAsClaimed(raw) ==
    IF Len(raw) # 2 THEN "format"
    ELSE IF raw[1].k # "ts" THEN "timestamp"
    ELSE IF raw[2].k # "int" THEN "count"
    ELSE "validation"

C12_ErrorKindMatchesDefect ==
    (pc = "raised" /\ raised.kind \in ParseKinds)
        => raised.kind = DefectAsClaimed(lines[Len(lines)])

\* C12 (amended): format for a single token; otherwise timestamp for a first
\* token that is no date-time; otherwise count when what follows the first
\* token is not one integer (more tokens included); otherwise validation for
\* a negative integer.
DefectAsSplit(raw) ==
    IF Len(raw) = 1 THEN "format"
    ELSE IF raw[1].k # "ts" THEN "timestamp"
    ELSE IF Len(raw) > 2 \/ raw[2].k # "int" THEN "count"
    ELSE "validation"

C12_ErrorKindMatchesSplit ==
    /\ (pc = "raised" /\ raised.kind \in ParseKinds)
          => /\ IsInvalid(lines[Len(lines)])
             /\ raised.kind = DefectAsSplit(lines[Len(lines)])
    /\ (batch.tag = "error" /\ pc = "raised" /\ raised.kind \in ParseKinds)
          => batch.kind = DefectAsSplit(lines[Len(lines)])

\* A line of three tokens, after a record, was rejected with the count error.
C12_Witness ==
    /\ pc = "raised"
    /\ lines # <<>>
    /\ Len(lines[Len(lines)]) = 3
    /\ raised.kind = "count"
    /\ seen # <<>>
    /\ batch.tag = "error"

\* C13 (as stated): with a limit that is zero or negative, neither
\* analyse_stream nor top_half_hours returns a top-k result.
C13_NonPositiveLimitRaises ==
    top_limit <= 0 =>
        /\ pc \in {"start", "raised"}
        /\ result = None
        /\ batch.tag # "ok"

\* C14: a non-positive size raises the configuration error before anything
\* else happens: analyse_stream has read no line and incorporated nothing,
\* whatever the source holds, and quietest_period raises the size error
\* whatever the collection.
C14_NonPositiveSizeRaisesFirst ==
    window_size <= 0 =>
        /\ pc \in {"start", "raised"}
        /\ pc = "raised" => raised = ConfigError("window_size")
        /\ lines = <<>> /\ seen = <<>> /\ total = 0 /\ result = None
        /\ batch.tag = "ok" => batch.quietest = SizeError

\* The size is not positive, the source holds an invalid line, and the
\* configuration error was raised.
C14_Witness ==
    /\ window_size <= 0
    /\ pc = "raised"
    /\ \E i \in 1..Len(unread) : IsInvalid(unread[i])

\* C15: a blank line is no error and changes nothing: the step that reads it
\* leaves the run in its loop with the total, the per-day totals, the top-k
\* buffer, the window buffer and the best window as they were, so that the
\* result is that of the input without the line; and the batch pipeline
\* returns for an input what it returns for its non-blank lines only.
NonBlank(input) == SelectSeq(input, LAMBDA raw : raw # <<>>)

C15_BlankLinesIgnored ==
    /\ [][(pc = "loop" /\ lines' = Append(lines, <<>>))
            => /\ pc' = "loop"
               /\ UNCHANGED <<total, daily, top_records, buffer, best_window,
                              best_total, raised, result, seen>>]_vars
    /\ [](pc \in {"loop", "done"} => Len(seen) = Len(NonBlank(lines)))
    /\ [](batch.tag = "ok" =>
            /\ Len(batch.records) = Len(NonBlank(Source))
            /\ batch = BatchOutcome(NonBlank(Source), window_size, top_limit))

\* A blank line was read between two records 30 minutes apart, and the two
\* are the window returned.
C15_Witness ==
    /\ pc = "done"
    /\ window_size = 2
    /\ Len(lines) = 3 /\ lines[2] = <<>>
    /\ Len(seen) = 2
    /\ result.value.quietest_window = seen

\* C16: parse_records returns the records of the lines, each as often as it
\* was read, in ascending timestamp order, those of equal timestamp in the
\* order of the input.
RecordsOf(input) ==
    LET valid == NonBlank(input) IN
    [i \in 1..Len(valid) |-> [timestamp |-> valid[i][1].v, cars |-> valid[i][2].v]]

At(records, timestamp) ==
    SelectSeq(records, LAMBDA r : r.timestamp = timestamp)

SortedStably(input, output) ==
    /\ Len(output) = Len(input)
    /\ \A x \in Elements(input) : Occurrences(output, x) = Occurrences(input, x)
    /\ NonDecreasing(output)
    /\ \A x \in Elements(input) : At(output, x.timestamp) = At(input, x.timestamp)

C16_ParseRecordsSortsStably ==
    batch.tag = "ok" => SortedStably(RecordsOf(Source), batch.records)

\* Two records of one timestamp and different counts arrive before an
\* earlier record.
C16_Witness ==
    /\ batch.tag = "ok"
    /\ Len(seen) = 3
    /\ seen[1].timestamp = seen[2].timestamp
    /\ seen[1].cars # seen[2].cars
    /\ seen[3].timestamp < seen[1].timestamp

Suffix(seq, n) == SubSeq(seq, Len(seq) - n + 1, Len(seq))

\* The length of the longest run of 30-minute steps that ends seq.
RunAtEnd(seq) ==
    CHOOSE n \in 1..Len(seq) :
        /\ HalfHourSteps(Suffix(seq, n))
        /\ n < Len(seq) => ~HalfHourSteps(Suffix(seq, n + 1))

C18_BufferIsLatestRun ==
    (pc = "loop" /\ seen # <<>>) =>
        /\ buffer # <<>>
        /\ buffer[Len(buffer)] = seen[Len(seen)]
        /\ HalfHourSteps(buffer)
        /\ buffer = Suffix(seen, Min(window_size, RunAtEnd(seen)))
        /\ Len(buffer) = window_size
              => (best_window # NoWindow /\ best_total <= SumOf(buffer))

\* A run of two was cut short by a record that does not come 30 minutes
\* later (the same time or earlier), the buffer restarting with it.
C18_Witness ==
    /\ pc = "loop"
    /\ window_size = 3
    /\ Len(seen) = 3
    /\ seen[2].timestamp = seen[1].timestamp + 30
    /\ seen[3].timestamp <= seen[2].timestamp
    /\ buffer = <<seen[3]>>

\* C19: when the lines arrive in non-decreasing timestamp order, the stream
\* meets a candidate exactly where the batch scan finds a contiguous window,
\* and its quietest window, or none, is that of quietest_period on the
\* collection of parse_records, for every positive size.
AsWindow(outcome) == IF outcome.tag = "ok" THEN outcome.window ELSE NoWindow

C19_OrderedStreamEqualsBatchWindow ==
    NonDecreasing(seen) =>
        /\ (pc = "loop" /\ Len(seen) >= window_size) =>
              /\ Len(buffer) = window_size
                    <=> (Len(seen) - window_size + 1) \in Candidates(seen, window_size)
              /\ best_window = AsWindow(quietest_period(seen, window_size))
        /\ BothFinished =>
              /\ batch.records = seen
              /\ result.value.quietest_window = AsWindow(batch.quietest)

\* Windows of one record, two records of one timestamp among them, and the
\* quietest is not the first record read.
C19_Witness ==
    /\ BothFinished
    /\ NonDecreasing(seen)
    /\ window_size = 1
    /\ \E i \in 1..(Len(seen) - 1) : seen[i].timestamp = seen[i + 1].timestamp
    /\ result.value.quietest_window # <<seen[1]>>

\* C20: the per-day totals add up to the grand total, in the running state
\* of a streaming run and in every result; no total is negative, and none
\* decreases when a further record is incorporated.
RECURSIVE SumOfDays(_, _)
SumOfDays(totals, days) ==
    IF days = {} THEN 0
    ELSE LET d == CHOOSE x \in days : TRUE IN totals[d] + SumOfDays(totals, days \ {d})

RECURSIVE SumOfEntries(_)
SumOfEntries(per_day) ==
    IF per_day = <<>> THEN 0 ELSE per_day[1][2] + SumOfEntries(Tail(per_day))

TotalsAgree ==
    /\ total = SumOfDays(daily, DOMAIN daily)
    /\ total >= 0
    /\ \A d \in DOMAIN daily : daily[d] >= 0
    /\ pc = "done" =>
          /\ SumOfEntries(result.value.per_day) = result.value.total
          /\ result.value.total = total
    /\ batch.tag = "ok" =>
          /\ SumOfEntries(batch.per_day) = batch.total
          /\ batch.total >= 0

C20_DayTotalsAddUp ==
    /\ []TotalsAgree
    /\ [][/\ total' >= total
          /\ \A d \in DOMAIN daily : d \in DOMAIN daily' /\ daily'[d] >= daily[d]]_vars

\* Records of two days were incorporated, cars on both.
C20_Witness ==
    /\ pc = "loop"
    /\ Len(seen) = 3
    /\ Cardinality(DOMAIN daily) = 2
    /\ \A d \in DOMAIN daily : daily[d] >= 1

====
